---- MODULE Spec2Model ----
(***************************************************************************)
(* Asset, Asset.Symbol, Asset.SymbolCode and ExtendedAsset of the chain    *)
(* value-type library, as a machine of API calls.                          *)
(*                                                                         *)
(* Representation of the JavaScript values:                                *)
(*   string   a sequence of UTF-16 code units (charCodeAt), e.g. "EOS" is  *)
(*            <<69, 79, 83>>;                                              *)
(*   BN       the magnitude as its little-endian bytes with no high zero   *)
(*            byte (what BN.strip() keeps), zero being << >>;              *)
(*   UInt64   its BN (at most 8 bytes);                                    *)
(*   Int64    [neg, mag]: BN's sign flag and magnitude;                    *)
(*   number   a natural number for a precision (NaN apart), [neg, mag]     *)
(*            for the integer-valued doubles given to convertFloat.        *)
(***************************************************************************)
EXTENDS Integers, Sequences, FiniteSets, TLC

VARIABLES op, arg, this, ret, buf, pos

vars == <<op, arg, this, ret, buf, pos>>

(***************************************************************************)
(* Bounds of the model.                                                    *)
(***************************************************************************)
\* A ticker text of the model is up to MaxPad letters 'A' followed by up to
\* MaxTail characters of TickerChars, so its length runs from 0 to 8.
MaxPad == 6
MaxTail == 2
\* Number of values one encoder buffer receives in a run.
MaxWrites == 2

(***************************************************************************)
(* Program constants.                                                      *)
(***************************************************************************)
maxPrecision == 18
maxNameLength == 7
Space == 32
Dot == 46
Comma == 44
Minus == 45
Zero == 48
byteWidth == 8
NaN == -1

(***************************************************************************)
(* Sequences and bytes.                                                    *)
(***************************************************************************)
Reverse(s) == [i \in 1..Len(s) |-> s[Len(s) + 1 - i]]

Min(a, b) == IF a < b THEN a ELSE b

Max(a, b) == IF a < b THEN b ELSE a

Rep(c, n) == [i \in 1..n |-> c]

SeqsUpTo(S, n) == UNION {[1..k -> S] : k \in 0..n}

RECURSIVE BitOr(_, _)
BitOr(a, b) ==
    IF a = 0 THEN b
    ELSE IF b = 0 THEN a
    ELSE Max(a % 2, b % 2) + 2 * BitOr(a \div 2, b \div 2)

\* BN.strip(): drop the high zero bytes (the tail of the little-endian form).
RECURSIVE Strip(_)
Strip(bytes) ==
    IF bytes = << >> THEN << >>
    ELSE IF bytes[Len(bytes)] = 0 THEN Strip(SubSeq(bytes, 1, Len(bytes) - 1))
    ELSE bytes

\* BN.toArray('be') without a length: Math.max(1, byteLength) bytes, high first.
toArrayBE(bn) == IF bn = << >> THEN <<0>> ELSE Reverse(bn)

\* BN.toArray('le', n): n bytes, low first, zero filled.
toArrayLE(bn, n) == [i \in 1..n |-> IF i <= Len(bn) THEN bn[i] ELSE 0]

\* ToInt32 of an array element inside BN's "number[i] | ...": NaN is 0.
ToInt32(x) == IF x = NaN THEN 0 ELSE x

\* new BN(array, 'le'): every element is OR-ed in at its byte offset
\* (w = number[i] | number[i+1] << 8 | number[i+2] << 16), so an element above
\* 255 spills into the next byte. Exact for elements below 2^16 at offset 0 and
\* below 2^8 elsewhere, which is all the model passes.
BNFromArrayLE(array) ==
    LET n == Len(array)
        lo(i) == IF i >= 1 /\ i <= n THEN ToInt32(array[i]) % 256 ELSE 0
        hi(i) == IF i >= 1 /\ i <= n THEN (ToInt32(array[i]) \div 256) % 256 ELSE 0
    IN  Strip([k \in 1..(n + 1) |-> BitOr(lo(k), hi(k - 1))])

(***************************************************************************)
(* Results of a call: a value or a thrown Error.                           *)
(***************************************************************************)
Ok(v) == [err |-> "", val |-> v]

Throw(e) == [err |-> e, val |-> << >>]

ErrPrecision == "Invalid asset symbol, precision too large"
ErrCharset == "Invalid asset symbol, name must be uppercase A-Z"
ErrSymbolString == "Invalid symbol string"
ErrAssetString == "Invalid asset string"
ErrLoosesPrecision == "Conversion looses precision"

(***************************************************************************)
(* Symbol packing: lines 261-290.                                          *)
(***************************************************************************)
toSymbolPrecision(rawSymbol) == IF rawSymbol = << >> THEN 0 ELSE rawSymbol[1]

\* Mutant: the characters are not put back in text order.
charsToSymbolName_noReverse(chars) == chars

charsToSymbolName(chars) == Reverse(chars)

toSymbolName(rawSymbol) ==
    LET be == toArrayBE(rawSymbol)
    IN  charsToSymbolName(SubSeq(be, 1, Len(be) - 1))

toRawSymbolCode(name) ==
    LET length == Min(Len(name), maxNameLength)
    IN  [i \in 1..length |-> name[i]]

toRawSymbol(name, precision) ==
    BNFromArrayLE(<<precision>> \o toRawSymbolCode(name))

\* /^[A-Z]{1,7}$/.test(name)
symbolNamePattern(name) ==
    /\ Len(name) >= 1
    /\ Len(name) <= 7
    /\ \A i \in 1..Len(name) : name[i] >= 65 /\ name[i] <= 90

(***************************************************************************)
(* JavaScript string and number primitives the code calls.                 *)
(***************************************************************************)
IsDigit(c) == c >= 48 /\ c <= 57

\* String(n) of a natural number: `${precision}`.
RECURSIVE NumToStr(_)
NumToStr(n) ==
    IF n < 10 THEN <<Zero + n>> ELSE NumToStr(n \div 10) \o <<Zero + (n % 10)>>

\* Number.parseInt(s) for texts with no leading space or sign: the leading
\* decimal digits, NaN when there are none.
RECURSIVE ParseDigits(_, _, _)
ParseDigits(s, i, acc) ==
    IF i > Len(s) \/ ~IsDigit(s[i]) THEN acc
    ELSE ParseDigits(s, i + 1, 10 * acc + (s[i] - Zero))

parseInt(s) ==
    IF s = << >> \/ ~IsDigit(s[1]) THEN NaN ELSE ParseDigits(s, 1, 0)

\* s.split(sep) for a one-character separator: the list of parts.
RECURSIVE SplitFrom(_, _, _, _)
SplitFrom(s, sep, i, cur) ==
    IF i > Len(s) THEN <<cur>>
    ELSE IF s[i] = sep THEN <<cur>> \o SplitFrom(s, sep, i + 1, << >>)
    ELSE SplitFrom(s, sep, i + 1, Append(cur, s[i]))

split(s, sep) == SplitFrom(s, sep, 1, << >>)

\* s.replace(c, ''): the first occurrence of c removed.
RECURSIVE replaceFirst(_, _)
replaceFirst(s, c) ==
    IF s = << >> THEN << >>
    ELSE IF s[1] = c THEN Tail(s)
    ELSE <<s[1]>> \o replaceFirst(Tail(s), c)

(***************************************************************************)
(* Asset.Symbol: lines 89-177.                                             *)
(***************************************************************************)
\* Mutant: the precision is not checked.
Symbol_new_noPrecisionCheck(value) ==
    IF ~symbolNamePattern(toSymbolName(value)) THEN Throw(ErrCharset) ELSE Ok(value)

\* constructor(value: UInt64)
Symbol_new(value) ==
    IF toSymbolPrecision(value) > maxPrecision THEN Throw(ErrPrecision)
    ELSE IF ~symbolNamePattern(toSymbolName(value)) THEN Throw(ErrCharset)
    ELSE Ok(value)

Symbol_fromParts(name, precision) == Symbol_new(toRawSymbol(name, precision))

\* from(value): value is [type |-> "Symbol" | "UInt64" | "string", v |-> ...]
Symbol_from(value) ==
    IF value.type = "Symbol" THEN Ok(value.v)
    ELSE IF value.type = "UInt64" THEN Symbol_new(value.v)
    ELSE LET parts == split(value.v, Comma)
         IN  IF Len(parts) # 2 THEN Throw(ErrSymbolString)
             ELSE Symbol_fromParts(parts[2], parseInt(parts[1]))

Symbol_name(sym) == toSymbolName(sym)

Symbol_precision(sym) == toSymbolPrecision(sym)

Symbol_toString(sym) ==
    NumToStr(Symbol_precision(sym)) \o <<Comma>> \o Symbol_name(sym)

\* get code(): value >>> 8 wrapped as a SymbolCode
Symbol_code(sym) == IF sym = << >> THEN << >> ELSE Tail(sym)

(***************************************************************************)
(* Asset.SymbolCode: lines 180-218.                                        *)
(***************************************************************************)
\* from(value): value is [type |-> "SymbolCode" | "UInt64" | "string", v |-> ...]
SymbolCode_from(value) ==
    IF value.type = "string" THEN BNFromArrayLE(toRawSymbolCode(value.v))
    ELSE value.v

SymbolCode_toString(code) == charsToSymbolName(toArrayBE(code))

(***************************************************************************)
(* Int64 / UInt64 and the BN arithmetic under them (./integer, bn.js).     *)
(***************************************************************************)
\* Long division of a magnitude by a small divisor, high byte first:
\* [q |-> quotient bytes (unstripped), r |-> remainder].
RECURSIVE DivSmall(_, _, _, _, _)
DivSmall(bytes, i, rem, d, acc) ==
    IF i = 0 THEN [q |-> acc, r |-> rem]
    ELSE LET cur == rem * 256 + bytes[i]
         IN  DivSmall(bytes, i - 1, cur % d, d, <<cur \div d>> \o acc)

\* mag * m + carry for small m, low byte first.
RECURSIVE MulSmall(_, _, _)
MulSmall(mag, m, carry) ==
    IF mag = << >> THEN (IF carry = 0 THEN << >>
                         ELSE <<carry % 256>> \o MulSmall(<< >>, m, carry \div 256))
    ELSE LET v == mag[1] * m + carry
         IN  <<v % 256>> \o MulSmall(Tail(mag), m, v \div 256)

\* BN.toString(10) of a magnitude.
RECURSIVE BNToDec(_)
BNToDec(mag) ==
    LET d == DivSmall(mag, Len(mag), 0, 10, << >>)
    IN  IF mag = << >> THEN <<Zero>>
        ELSE IF Strip(d.q) = << >> THEN <<Zero + d.r>>
        ELSE BNToDec(Strip(d.q)) \o <<Zero + d.r>>

\* new BN(digits, 10) of a text of decimal digits.
RECURSIVE BNFromDec(_, _)
BNFromDec(s, acc) ==
    IF s = << >> THEN Strip(acc)
    ELSE BNFromDec(Tail(s), MulSmall(acc, 10, s[1] - Zero))

\* magnitude >= 2^63, and magnitude > 2^63
GE2p63(mag) == Len(mag) > byteWidth \/ (Len(mag) = byteWidth /\ mag[byteWidth] >= 128)

GT2p63(mag) == GE2p63(mag) /\ mag # Rep(0, byteWidth - 1) \o <<128>>

\* new Int64(bn): the sign is dropped from zero, a value outside 64 bits fails.
Int64_new(neg, mag) ==
    IF (~neg /\ GE2p63(mag)) \/ (neg /\ GT2p63(mag)) THEN Throw("Number out of range")
    ELSE Ok([neg |-> neg /\ mag # << >>, mag |-> mag])

\* Int64.from(text): an optional '-' and decimal digits.
Int64_fromString(s) ==
    LET neg == s # << >> /\ s[1] = Minus
        digits == IF neg THEN Tail(s) ELSE s
    IN  IF digits = << >> \/ \E i \in 1..Len(digits) : ~IsDigit(digits[i])
        THEN Throw("Invalid number")
        ELSE Int64_new(neg, BNFromDec(digits, << >>))

\* magnitude >= 2^53 (0x20000000000000)
GE2p53(mag) == Len(mag) > 7 \/ (Len(mag) = 7 /\ mag[7] >= 32)

\* Int64.from(number) of an integer-valued double: bn.js refuses a number it
\* cannot hold exactly (assert(number < 0x20000000000000)).
Int64_fromNumber(n) ==
    IF GE2p53(n.mag) THEN Throw("Assertion failed") ELSE Int64_new(n.neg, n.mag)

Int64_toString(x) == (IF x.neg THEN <<Minus>> ELSE << >>) \o BNToDec(x.mag)

\* Two's complement negation of byteWidth bytes: invert and add one.
RECURSIVE AddOne(_)
AddOne(bytes) ==
    IF bytes = << >> THEN << >>
    ELSE IF bytes[1] = 255 THEN <<0>> \o AddOne(Tail(bytes))
    ELSE <<bytes[1] + 1>> \o Tail(bytes)

Negate(bytes) == AddOne([i \in 1..Len(bytes) |-> 255 - bytes[i]])

(***************************************************************************)
(* ABIEncoder / ABIDecoder: a byte buffer written at its end and read at   *)
(* a position (../serializer/encoder, ../serializer/decoder).              *)
(***************************************************************************)
ErrUnderflow == "Read past end of buffer"

\* A read: [err, val, pos]
Got(v, p) == [err |-> "", val |-> v, pos |-> p]

Failed(e, p) == [err |-> e, val |-> << >>, pos |-> p]

readBytes(data, p, n) ==
    IF p + n > Len(data) THEN Failed(ErrUnderflow, p)
    ELSE Got(SubSeq(data, p + 1, p + n), p + n)

UInt64_toABI(value, out) == out \o toArrayLE(value, byteWidth)

UInt64_fromABI(data, p) ==
    LET r == readBytes(data, p, byteWidth)
    IN  IF r.err # "" THEN r ELSE Got(Strip(r.val), r.pos)

Int64_toABI(x, out) ==
    out \o (IF x.neg THEN Negate(toArrayLE(x.mag, byteWidth))
            ELSE toArrayLE(x.mag, byteWidth))

Int64_fromABI(data, p) ==
    LET r == readBytes(data, p, byteWidth)
    IN  IF r.err # "" THEN r
        ELSE IF r.val[byteWidth] >= 128
             THEN Got([neg |-> TRUE, mag |-> Strip(Negate(r.val))], r.pos)
             ELSE Got([neg |-> FALSE, mag |-> Strip(r.val)], r.pos)

\* Name: a 64-bit value, written and read like a UInt64 (./name).
Name_toABI(name, out) == UInt64_toABI(name, out)

Name_fromABI(data, p) == UInt64_fromABI(data, p)

(***************************************************************************)
(* Asset.Symbol, continued: binary codec and float conversion.             *)
(***************************************************************************)
Symbol_toABI(sym, out) == UInt64_toABI(sym, out)

Symbol_fromABI(data, p) ==
    LET r == UInt64_fromABI(data, p)
        s == Symbol_new(r.val)
    IN  IF r.err # "" THEN r
        ELSE IF s.err # "" THEN Failed(s.err, r.pos)
        ELSE Got(s.val, r.pos)

SymbolCode_toABI(code, out) == UInt64_toABI(code, out)

SymbolCode_fromABI(data, p) == UInt64_fromABI(data, p)

\* Math.pow(10, precision) * float, exact on the integers below 2^53 and
\* monotone above, so the comparison with 2^53 is the exact one.
RECURSIVE MulPow10(_, _)
MulPow10(mag, precision) ==
    IF precision = 0 THEN mag ELSE MulPow10(Strip(MulSmall(mag, 10, 0)), precision - 1)

\* convertFloat(float): float is [neg, mag]
Symbol_convertFloat(sym, float) ==
    LET rv == [neg |-> float.neg, mag |-> MulPow10(float.mag, Symbol_precision(sym))]
    IN  IF ~rv.neg /\ GE2p53(rv.mag) THEN Throw(ErrLoosesPrecision)
        ELSE Int64_fromNumber(rv)

(***************************************************************************)
(* Asset: lines 11-84. An Asset is [units, symbol].                        *)
(***************************************************************************)
Asset_new(units, symbol) == [units |-> units, symbol |-> symbol]

\* from(value): value is [type |-> "Asset" | "string", v |-> ...]
Asset_from(value) ==
    IF value.type = "Asset" THEN Ok(value.v)
    ELSE LET parts == split(value.v, Space)
         IN  IF Len(parts) # 2 THEN Throw(ErrAssetString)
             ELSE LET amount == replaceFirst(parts[1], Dot)
                      frac == split(parts[1], Dot)
                      precision == IF Len(frac) >= 2 THEN Len(frac[2]) ELSE 0
                      symbol == Symbol_fromParts(parts[2], precision)
                      units == Int64_fromString(amount)
                  IN  IF symbol.err # "" THEN Throw(symbol.err)
                      ELSE IF units.err # "" THEN Throw(units.err)
                      ELSE Ok(Asset_new(units.val, symbol.val))

Asset_fromABI(data, p) ==
    LET units == Int64_fromABI(data, p)
        symbol == Symbol_fromABI(data, units.pos)
    IN  IF units.err # "" THEN units
        ELSE IF symbol.err # "" THEN symbol
        ELSE Got(Asset_new(units.val, symbol.val), symbol.pos)

\* Mutant: the symbols are not compared.
Asset_equals_unitsOnly(self, other) ==
    LET o == Asset_from(other)
    IN  IF o.err # "" THEN Throw(o.err) ELSE Ok(self.units = o.val.units)

Asset_equals(self, other) ==
    LET o == Asset_from(other)
    IN  IF o.err # "" THEN Throw(o.err)
        ELSE Ok(self.symbol = o.val.symbol /\ self.units = o.val.units)

\* set value(newValue)
Asset_setValue(self, newValue) ==
    LET u == Symbol_convertFloat(self.symbol, newValue)
    IN  IF u.err # "" THEN Throw(u.err) ELSE Ok(Asset_new(u.val, self.symbol))

\* Mutant: the symbol is written before the units.
Asset_toABI_symbolFirst(self, out) == Int64_toABI(self.units, Symbol_toABI(self.symbol, out))

Asset_toABI(self, out) == Symbol_toABI(self.symbol, Int64_toABI(self.units, out))

\* Mutant: while (digits.length < p), one zero short.
padDigits_oneShort(digits, p) ==
    IF Len(digits) < p THEN Rep(Zero, p - Len(digits)) \o digits ELSE digits

\* while (digits.length <= p) digits.unshift('0')
padDigits(digits, p) ==
    IF Len(digits) <= p THEN Rep(Zero, p + 1 - Len(digits)) \o digits ELSE digits

\* Mutant: the sign is not put back.
Asset_toString_noSign(self) ==
    LET all == Int64_toString(self.units)
        p == Symbol_precision(self.symbol)
        digits == padDigits(IF all[1] = Minus THEN Tail(all) ELSE all, p)
        spliced == IF p > 0
                   THEN SubSeq(digits, 1, Len(digits) - p) \o <<Dot>>
                        \o SubSeq(digits, Len(digits) - p + 1, Len(digits))
                   ELSE digits
    IN  spliced \o <<Space>> \o Symbol_name(self.symbol)

Asset_toString(self) ==
    LET all == Int64_toString(self.units)
        negative == all[1] = Minus
        digits == padDigits(IF negative THEN Tail(all) ELSE all,
                            Symbol_precision(self.symbol))
        p == Symbol_precision(self.symbol)
        spliced == IF p > 0
                   THEN SubSeq(digits, 1, Len(digits) - p) \o <<Dot>>
                        \o SubSeq(digits, Len(digits) - p + 1, Len(digits))
                   ELSE digits
        rv == IF negative THEN <<Minus>> \o spliced ELSE spliced
    IN  rv \o <<Space>> \o Symbol_name(self.symbol)

(***************************************************************************)
(* ExtendedAsset: lines 222-259. An ExtendedAsset is [quantity, contract]. *)
(***************************************************************************)
ExtendedAsset_new(quantity, contract) == [quantity |-> quantity, contract |-> contract]

ExtendedAsset_toABI(self, out) == Name_toABI(self.contract, Asset_toABI(self.quantity, out))

ExtendedAsset_fromABI(data, p) ==
    LET quantity == Asset_fromABI(data, p)
        contract == Name_fromABI(data, quantity.pos)
    IN  IF quantity.err # "" THEN quantity
        ELSE IF contract.err # "" THEN contract
        ELSE Got(ExtendedAsset_new(quantity.val, contract.val), contract.pos)

(***************************************************************************)
(* Inputs of the calls.                                                    *)
(***************************************************************************)
\* Text of a list of decimal digits: Dec(<<1, 5, 0>>) is "150".
Dec(ds) == [i \in 1..Len(ds) |-> Zero + ds[i]]

\* 'A', 'Z', 'a'
TickerChars == {65, 90, 97}

\* Bytes of a raw value above its lowest: a zero byte and the ticker characters.
RawBytes == {0} \cup TickerChars

Tickers == {Rep(65, k) \o t : k \in 0..MaxPad, t \in SeqsUpTo(TickerChars, MaxTail)}

\* Every valid precision, the first invalid one, and ones at and past a byte.
Precisions == (0..19) \cup {255, 256, 260}

PrecisionBytes == {0, 4, 18, 19, 255}

\* Raw 64-bit values: a precision byte below up to 7 further bytes.
RawNames ==
    {x \in {Rep(65, k) \o t : k \in 0..MaxPad, t \in SeqsUpTo(RawBytes, MaxTail)} :
        Len(x) <= maxNameLength}

RawValues == {Strip(<<b>> \o t) : b \in PrecisionBytes, t \in RawNames}

SymbolTexts ==
    {NumToStr(p) \o <<Comma>> \o t : p \in Precisions, t \in Tickers}
    \cup {<<Comma>> \o t : t \in Tickers}
    \cup {<<52>>, <<52, Comma, 65, Comma, 65>>, <<52, 65>>}

Amounts ==
    { Dec(<<1>>), Dec(<<1>>) \o <<Dot>> \o Dec(<<0>>), Dec(<<1>>) \o <<Dot>> \o Dec(<<0, 0>>),
      Dec(<<1, 0>>), Dec(<<1, 0, 0>>), Dec(<<1>>) \o <<Dot>> \o Dec(<<5, 0>>),
      <<Minus>> \o Dec(<<1>>) \o <<Dot>> \o Dec(<<2, 5, 0, 0>>),
      Dec(<<0>>) \o <<Dot>> \o Dec(<<0, 0, 0, 1>>),
      <<Minus>> \o Dec(<<0>>) \o <<Dot>> \o Dec(<<5>>),
      Dec(<<1>>) \o <<Dot>> \o Dec(<<2>>) \o <<Dot>> \o Dec(<<3>>) }

AssetTexts ==
    {a \o <<Space>> \o t : a \in Amounts, t \in Tickers}
    \cup {Dec(<<1>>) \o <<65>>, Dec(<<1>>) \o <<Space, Space, 65>>}

\* Texts an Asset is compared with.
OtherTexts ==
    {a \o <<Space>> \o t : a \in Amounts, t \in {<<65>>, <<65, 90>>, <<90, 65>>}}
    \cup {Dec(<<1>>) \o <<65>>}

I64(neg, ds) == [neg |-> neg, mag |-> BNFromDec(Dec(ds), << >>)]

\* 0, 1, -1, 5, -5, 100, 150, -12500, 2^63 - 1, -2^63
UnitsSet ==
    { I64(FALSE, <<0>>), I64(FALSE, <<1>>), I64(TRUE, <<1>>), I64(FALSE, <<5>>),
      I64(TRUE, <<5>>), I64(FALSE, <<1, 0, 0>>), I64(FALSE, <<1, 5, 0>>),
      I64(TRUE, <<1, 2, 5, 0, 0>>),
      I64(FALSE, <<9,2,2,3,3,7,2,0,3,6,8,5,4,7,7,5,8,0,7>>),
      I64(TRUE, <<9,2,2,3,3,7,2,0,3,6,8,5,4,7,7,5,8,0,8>>) }

\* Integer-valued doubles around the 2^53 = 9007199254740992 boundary at the
\* precisions of the model.
FloatMagnitudes ==
    { <<0>>, <<1>>, <<1, 2, 5>>,
      <<9,0,0,7,1,9,9,2,5,4,7,4,0,9,9,1>>, <<9,0,0,7,1,9,9,2,5,4,7,4,0,9,9,2>>,
      <<9,0,0,7,1,9,9,2,5,4,7,4,0,9,9,4>>,
      <<9,0,0,7,1,9,9,2,5,4,7,4,0,9,9>>, <<9,0,0,7,1,9,9,2,5,4,7,4,1,0,0>>,
      <<9,0,0,7,1,9,9,2,5,4,7,4>>, <<9,0,0,7,1,9,9,2,5,4,7,5>>,
      <<9>>, <<9, 1>> }

Floats ==
    {I64(FALSE, ds) : ds \in FloatMagnitudes}
    \cup {I64(TRUE, ds) : ds \in FloatMagnitudes \ {<<0>>}}

Names == {<< >>, <<0, 0, 0, 0, 0, 234, 48, 85>>}

\* Received bytes: a symbol alone, units and a symbol, and a cut-off message.
UnitsImages == {Int64_toABI(u, << >>) : u \in {I64(FALSE, <<1>>), I64(TRUE, <<5>>)}}

\* Raw 64-bit values given for a SymbolCode: any bytes, zero ones among them.
RawCodes == {Strip(t) : t \in RawNames} \cup {Rep(90, byteWidth)}

WireData ==
    {toArrayLE(r, byteWidth) : r \in RawValues}
    \cup {u \o toArrayLE(r, byteWidth) : u \in UnitsImages, r \in RawValues}
    \cup {<<4, 65, 0>>}

(***************************************************************************)
(* The machine: a caller that makes one call after another. op is the last *)
(* call, arg its arguments, ret what it returned or threw, this the object *)
(* the caller holds and calls methods on, buf the bytes of the encoder /   *)
(* decoder it passes along and pos the decoder's read position.            *)
(***************************************************************************)
NoObject == [type |-> "none", v |-> << >>]

Obj(t, v) == [type |-> t, v |-> v]

Ret(t, r) == [err |-> r.err, type |-> IF r.err = "" THEN t ELSE "Error", val |-> r.val]

\* What the caller holds after a constructing call.
Held(t, r) == IF r.err = "" THEN Obj(t, r.val) ELSE NoObject

Init ==
    /\ op = "init"
    /\ arg = [after |-> "none"]
    /\ this = NoObject
    /\ ret = [err |-> "", type |-> "none", val |-> << >>]
    /\ buf = << >>
    /\ pos = 0

SymbolMakers == {"new Symbol", "Symbol.fromParts"}

\* new Symbol(value)
CallSymbolNew ==
    /\ op = "init"
    /\ \E value \in RawValues :
        LET r == Symbol_new(value)
        IN  /\ op' = "new Symbol"
            /\ arg' = [after |-> op, value |-> value]
            /\ ret' = Ret("Symbol", r)
            /\ this' = Held("Symbol", r)
    /\ UNCHANGED <<buf, pos>>

\* Symbol.fromParts(name, precision) for a name among names
FromParts(names) ==
    /\ op = "init"
    /\ \E name \in names, precision \in Precisions :
        LET r == Symbol_fromParts(name, precision)
        IN  /\ op' = "Symbol.fromParts"
            /\ arg' = [after |-> op, name |-> name, precision |-> precision]
            /\ ret' = Ret("Symbol", r)
            /\ this' = Held("Symbol", r)
    /\ UNCHANGED <<buf, pos>>

CallSymbolFromParts == FromParts(Tickers)

\* The same call on the names of at most 7 characters alone.
CallSymbolFromPartsShort == FromParts({t \in Tickers : Len(t) <= maxNameLength})

\* Symbol.from(value): a text or a raw value at the start, the text toString
\* gave, or the Symbol the caller holds.
SymbolFromInputs ==
    IF op = "init"
    THEN {Obj("string", t) : t \in SymbolTexts} \cup {Obj("UInt64", r) : r \in RawValues}
    ELSE IF op = "Symbol.toString" THEN {Obj("string", ret.val)}
    ELSE IF op \in SymbolMakers /\ this.type = "Symbol" THEN {this}
    ELSE {}

CallSymbolFrom ==
    /\ \E value \in SymbolFromInputs :
        LET r == Symbol_from(value)
        IN  /\ op' = "Symbol.from"
            /\ arg' = [after |-> op, value |-> value]
            /\ ret' = Ret("Symbol", r)
            /\ this' = IF op = "init" THEN Held("Symbol", r) ELSE this
    /\ UNCHANGED <<buf, pos>>

\* symbol.toString()
CallSymbolToString ==
    /\ op \in SymbolMakers
    /\ this.type = "Symbol"
    /\ op' = "Symbol.toString"
    /\ arg' = [after |-> op]
    /\ ret' = Ret("string", Ok(Symbol_toString(this.v)))
    /\ UNCHANGED <<this, buf, pos>>

\* symbol.convertFloat(float)
CallSymbolConvertFloat ==
    /\ op \in SymbolMakers
    /\ this.type = "Symbol"
    /\ \E float \in Floats :
        /\ op' = "Symbol.convertFloat"
        /\ arg' = [after |-> op, float |-> float]
        /\ ret' = Ret("Int64", Symbol_convertFloat(this.v, float))
    /\ UNCHANGED <<this, buf, pos>>

\* symbol.toABI(encoder)
CallSymbolToABI ==
    /\ op \in SymbolMakers \cup {"Symbol.toABI"}
    /\ this.type = "Symbol"
    /\ Len(buf) < MaxWrites * byteWidth
    /\ op' = "Symbol.toABI"
    /\ arg' = [after |-> op, before |-> buf]
    /\ ret' = Ret("void", Ok(<< >>))
    /\ buf' = Symbol_toABI(this.v, buf)
    /\ UNCHANGED <<this, pos>>

\* new ABIDecoder(data)
CallDecoderNew ==
    /\ op = "init"
    /\ \E data \in WireData :
        /\ op' = "new ABIDecoder"
        /\ arg' = [after |-> op, data |-> data]
        /\ buf' = data
    /\ pos' = 0
    /\ ret' = Ret("ABIDecoder", Ok(<< >>))
    /\ UNCHANGED this

\* A decoder reads what was received, or what the encoder wrote, until a read fails.
CanRead(writer, reader) ==
    /\ op \in {"new ABIDecoder", writer, reader}
    /\ ret.err = ""
    /\ pos < Len(buf)

\* Symbol.fromABI(decoder)
CallSymbolFromABI ==
    /\ CanRead("Symbol.toABI", "Symbol.fromABI")
    /\ LET r == Symbol_fromABI(buf, pos)
       IN  /\ op' = "Symbol.fromABI"
           /\ arg' = [after |-> op, before |-> pos]
           /\ ret' = Ret("Symbol", r)
           /\ pos' = r.pos
    /\ UNCHANGED <<this, buf>>

\* symbol.code
CallSymbolCode ==
    /\ op \in SymbolMakers
    /\ this.type = "Symbol"
    /\ op' = "Symbol.code"
    /\ arg' = [after |-> op, symbol |-> this.v]
    /\ ret' = Ret("SymbolCode", Ok(Symbol_code(this.v)))
    /\ this' = Obj("SymbolCode", Symbol_code(this.v))
    /\ UNCHANGED <<buf, pos>>

\* SymbolCode.from(value): a text or a raw value
CallSymbolCodeFrom ==
    /\ op = "init"
    /\ \E value \in {Obj("string", t) : t \in Tickers} \cup {Obj("UInt64", c) : c \in RawCodes} :
        /\ op' = "SymbolCode.from"
        /\ arg' = [after |-> op, value |-> value]
        /\ ret' = Ret("SymbolCode", Ok(SymbolCode_from(value)))
        /\ this' = Obj("SymbolCode", SymbolCode_from(value))
    /\ UNCHANGED <<buf, pos>>

\* code.toString()
CallSymbolCodeToString ==
    /\ op \in {"Symbol.code", "SymbolCode.from", "SymbolCode.fromABI"}
    /\ this.type = "SymbolCode"
    /\ op' = "SymbolCode.toString"
    /\ arg' = [after |-> op]
    /\ ret' = Ret("string", Ok(SymbolCode_toString(this.v)))
    /\ UNCHANGED <<this, buf, pos>>

\* code.toABI(encoder)
CallSymbolCodeToABI ==
    /\ op \in {"SymbolCode.from", "SymbolCode.toABI"}
    /\ this.type = "SymbolCode"
    /\ Len(buf) < MaxWrites * byteWidth
    /\ op' = "SymbolCode.toABI"
    /\ arg' = [after |-> op, before |-> buf]
    /\ ret' = Ret("void", Ok(<< >>))
    /\ buf' = SymbolCode_toABI(this.v, buf)
    /\ UNCHANGED <<this, pos>>

\* SymbolCode.fromABI(decoder); the caller holds a code it received.
CallSymbolCodeFromABI ==
    /\ CanRead("SymbolCode.toABI", "SymbolCode.fromABI")
    /\ LET r == SymbolCode_fromABI(buf, pos)
       IN  /\ op' = "SymbolCode.fromABI"
           /\ arg' = [after |-> op, before |-> pos]
           /\ ret' = Ret("SymbolCode", r)
           /\ pos' = r.pos
           /\ this' = IF this.type = "none" THEN Held("SymbolCode", r) ELSE this
    /\ UNCHANGED buf

AssetMakers == {"new Asset", "Asset.from"}

\* The caller holds an Asset it has just made (not one it parsed back).
HoldsNewAsset(makers) ==
    /\ op \in makers
    /\ this.type = "Asset"
    /\ arg.after \in {"init", "Symbol.fromParts"}

\* new Asset(units, symbol) on the Symbol the caller holds
CallAssetNew ==
    /\ op = "Symbol.fromParts"
    /\ this.type = "Symbol"
    /\ \E units \in UnitsSet :
        /\ op' = "new Asset"
        /\ arg' = [after |-> op, units |-> units, symbol |-> this.v]
        /\ ret' = Ret("Asset", Ok(Asset_new(units, this.v)))
        /\ this' = Obj("Asset", Asset_new(units, this.v))
    /\ UNCHANGED <<buf, pos>>

\* Asset.from(value): a text at the start, the text toString gave, or the
\* Asset the caller holds.
AssetFromInputs ==
    IF op = "init" THEN {Obj("string", t) : t \in AssetTexts}
    ELSE IF op = "Asset.toString" THEN {Obj("string", ret.val)}
    ELSE IF HoldsNewAsset({"new Asset"}) THEN {this}
    ELSE {}

CallAssetFrom ==
    /\ \E value \in AssetFromInputs :
        LET r == Asset_from(value)
        IN  /\ op' = "Asset.from"
            /\ arg' = [after |-> op, value |-> value]
            /\ ret' = Ret("Asset", r)
            /\ this' = IF op = "init" THEN Held("Asset", r) ELSE this
    /\ UNCHANGED <<buf, pos>>

\* asset.toString()
CallAssetToString ==
    /\ HoldsNewAsset(AssetMakers)
    /\ op' = "Asset.toString"
    /\ arg' = [after |-> op]
    /\ ret' = Ret("string", Ok(Asset_toString(this.v)))
    /\ UNCHANGED <<this, buf, pos>>

\* asset.equals(other): a text, the Asset itself, or one of other units
OtherAssets ==
    {Asset_new(u, this.v.symbol) : u \in {this.v.units, I64(FALSE, <<1, 0>>), I64(FALSE, <<7>>)}}

Equals(other) ==
    /\ op' = "Asset.equals"
    /\ arg' = [after |-> op, other |-> other]
    /\ ret' = Ret("boolean", Asset_equals(this.v, other))

CallAssetEquals ==
    /\ HoldsNewAsset({"Asset.from"})
    /\ \/ \E t \in OtherTexts : Equals(Obj("string", t))
       \/ \E a \in OtherAssets : Equals(Obj("Asset", a))
    /\ UNCHANGED <<this, buf, pos>>

\* asset.value = newValue
CallAssetSetValue ==
    /\ HoldsNewAsset({"Asset.from"})
    /\ \E newValue \in Floats :
        LET r == Asset_setValue(this.v, newValue)
        IN  /\ op' = "Asset.value="
            /\ arg' = [after |-> op, newValue |-> newValue, self |-> this.v]
            /\ ret' = Ret("void", IF r.err = "" THEN Ok(<< >>) ELSE r)
            /\ this' = IF r.err = "" THEN Obj("Asset", r.val) ELSE this
    /\ UNCHANGED <<buf, pos>>

\* asset.toABI(encoder)
CallAssetToABI ==
    /\ \/ HoldsNewAsset({"new Asset"})
       \/ op = "Asset.toABI"
    /\ Len(buf) < MaxWrites * 2 * byteWidth
    /\ op' = "Asset.toABI"
    /\ arg' = [after |-> op, before |-> buf]
    /\ ret' = Ret("void", Ok(<< >>))
    /\ buf' = Asset_toABI(this.v, buf)
    /\ UNCHANGED <<this, pos>>

\* Asset.fromABI(decoder)
CallAssetFromABI ==
    /\ CanRead("Asset.toABI", "Asset.fromABI")
    /\ LET r == Asset_fromABI(buf, pos)
       IN  /\ op' = "Asset.fromABI"
           /\ arg' = [after |-> op, before |-> pos]
           /\ ret' = Ret("Asset", r)
           /\ pos' = r.pos
    /\ UNCHANGED <<this, buf>>

\* new ExtendedAsset(quantity, contract) on the Asset the caller holds
CallExtendedAssetNew ==
    /\ HoldsNewAsset({"new Asset"})
    /\ \E contract \in Names :
        /\ op' = "new ExtendedAsset"
        /\ arg' = [after |-> op, quantity |-> this.v, contract |-> contract]
        /\ ret' = Ret("ExtendedAsset", Ok(ExtendedAsset_new(this.v, contract)))
        /\ this' = Obj("ExtendedAsset", ExtendedAsset_new(this.v, contract))
    /\ UNCHANGED <<buf, pos>>

\* extended.toABI(encoder)
CallExtendedAssetToABI ==
    /\ op \in {"new ExtendedAsset", "ExtendedAsset.toABI"}
    /\ this.type = "ExtendedAsset"
    /\ Len(buf) < MaxWrites * 3 * byteWidth
    /\ op' = "ExtendedAsset.toABI"
    /\ arg' = [after |-> op, before |-> buf]
    /\ ret' = Ret("void", Ok(<< >>))
    /\ buf' = ExtendedAsset_toABI(this.v, buf)
    /\ UNCHANGED <<this, pos>>

\* ExtendedAsset.fromABI(decoder)
CallExtendedAssetFromABI ==
    /\ CanRead("ExtendedAsset.toABI", "ExtendedAsset.fromABI")
    /\ LET r == ExtendedAsset_fromABI(buf, pos)
       IN  /\ op' = "ExtendedAsset.fromABI"
           /\ arg' = [after |-> op, before |-> pos]
           /\ ret' = Ret("ExtendedAsset", r)
           /\ pos' = r.pos
    /\ UNCHANGED <<this, buf>>

Next ==
    \/ CallSymbolNew
    \/ CallSymbolFromParts
    \/ CallSymbolFrom
    \/ CallSymbolToString
    \/ CallSymbolConvertFloat
    \/ CallSymbolToABI
    \/ CallDecoderNew
    \/ CallSymbolFromABI
    \/ CallSymbolCode
    \/ CallSymbolCodeFrom
    \/ CallSymbolCodeToString
    \/ CallSymbolCodeToABI
    \/ CallSymbolCodeFromABI
    \/ CallAssetNew
    \/ CallAssetFrom
    \/ CallAssetToString
    \/ CallAssetEquals
    \/ CallAssetSetValue
    \/ CallAssetToABI
    \/ CallAssetFromABI
    \/ CallExtendedAssetNew
    \/ CallExtendedAssetToABI
    \/ CallExtendedAssetFromABI

Spec == Init /\ [][Next]_vars

\* The calls on a Symbol when no name is longer than 7 characters.
NextShort ==
    \/ CallSymbolFromPartsShort
    \/ CallSymbolToString
    \/ CallSymbolFrom
    \/ CallSymbolCode

SpecShort == Init /\ [][NextShort]_vars

(***************************************************************************)
(* Properties.                                                             *)
(***************************************************************************)
IsUpper(c) == c >= 65 /\ c <= 90

\* A packed symbol read byte by byte: a precision byte of at most 18 below
\* 1 to 7 bytes that are all uppercase letters, and nothing but zero above.
WellFormed(raw) ==
    /\ Len(raw) >= 2
    /\ Len(raw) <= 8
    /\ raw[1] <= 18
    /\ \A i \in 2..Len(raw) : IsUpper(raw[i])

\* The raw value the byteWidth bytes of data after position at spell.
RawAt(data, at) == Strip(SubSeq(data, at + 1, at + byteWidth))

SymbolsOf(o) ==
    IF o.type = "Symbol" THEN {o.v}
    ELSE IF o.type = "Asset" THEN {o.v.symbol}
    ELSE IF o.type = "ExtendedAsset" THEN {o.v.quantity.symbol}
    ELSE {}

\* Every Symbol the caller holds or was returned, alone or inside an Asset.
SymbolsInMemory == SymbolsOf(this) \cup SymbolsOf(Obj(ret.type, ret.val))

\* The raw value a call built its Symbol from, when it was given one.
RawGiven ==
    IF op = "new Symbol" THEN {arg.value}
    ELSE IF op = "Symbol.from" /\ arg.value.type = "UInt64" THEN {arg.value.v}
    ELSE IF op = "Symbol.fromABI" /\ arg.before + byteWidth <= Len(buf)
    THEN {RawAt(buf, arg.before)}
    ELSE IF op = "Asset.fromABI" /\ arg.before + 2 * byteWidth <= Len(buf)
    THEN {RawAt(buf, arg.before + byteWidth)}
    ELSE {}

\* C1: every Symbol that exists, on its own or as the symbol of an Asset, has
\* precision <= 18 and a name matching ^[A-Z]{1,7}$, whichever call made it;
\* and a call given a raw 64-bit value whose low byte is above 18, or whose
\* other bytes do not spell 1 to 7 uppercase letters, fails and returns no
\* Symbol or Asset.
C1_SymbolsAreValid ==
    /\ \A sym \in SymbolsInMemory :
        /\ Symbol_precision(sym) <= 18
        /\ Len(Symbol_name(sym)) \in 1..7
        /\ \A i \in 1..Len(Symbol_name(sym)) : IsUpper(Symbol_name(sym)[i])
        /\ WellFormed(sym)
    /\ \A raw \in RawGiven : ~WellFormed(raw) => ret.type = "Error"

C1_Witness ==
    /\ op = "Asset.fromABI"
    /\ arg.after = "new ABIDecoder"
    /\ Len(buf) = 2 * byteWidth
    /\ RawAt(buf, byteWidth) = <<18, 65, 65, 0, 90>>
    /\ ret.err = ErrCharset

\* C2: a ticker of 8 or more characters is rejected with the charset error by
\* Symbol.fromParts, Symbol.from and Asset.from, for every precision 0..18; it
\* is never cut to its first 7 characters.
C2_LongTickerRejected ==
    /\ (op = "Symbol.fromParts" /\ Len(arg.name) >= 8 /\ arg.precision <= 18)
        => ret.err = ErrCharset
    /\ (/\ op = "Symbol.from"
        /\ arg.value.type = "string"
        /\ Len(split(arg.value.v, Comma)) = 2
        /\ Len(split(arg.value.v, Comma)[2]) >= 8
        /\ parseInt(split(arg.value.v, Comma)[1]) \in 0..18)
        => ret.err = ErrCharset
    /\ (/\ op = "Asset.from"
        /\ arg.value.type = "string"
        /\ Len(split(arg.value.v, Space)) = 2
        /\ Len(split(arg.value.v, Space)[2]) >= 8
        /\ arg.value.v[1] = 49)
        => ret.err = ErrCharset

\* C3: Symbol.fromParts(t, p) fails with the precision error for every p > 18,
\* whatever t is and also for p >= 256, and for p in 0..18 fails with the
\* charset error when t is empty or has a character outside A-Z.
C3_FromPartsRejects ==
    op = "Symbol.fromParts" =>
        /\ arg.precision > 18 => ret.err = ErrPrecision
        /\ (/\ arg.precision <= 18
            /\ \/ arg.name = << >>
               \/ \E i \in 1..Len(arg.name) : ~IsUpper(arg.name[i]))
            => ret.err = ErrCharset

\* C4: for every units u and valid Symbol s, Asset.from(new Asset(u, s).toString())
\* succeeds and gives an Asset of the same units and the same symbol value.
C4_AssetTextRoundTrip ==
    (op = "Asset.from" /\ arg.after = "Asset.toString") =>
        /\ ret.type = "Asset"
        /\ ret.val.units = this.v.units
        /\ ret.val.symbol = this.v.symbol

C4_Witness ==
    /\ op = "Asset.from"
    /\ arg.after = "Asset.toString"
    /\ this.v.units = I64(TRUE, <<5>>)
    /\ Symbol_precision(this.v.symbol) = 18
    /\ ret.type = "Asset"
    /\ ret.val = this.v

ValidParts(name, precision) ==
    /\ precision \in 0..18
    /\ Len(name) \in 1..7
    /\ \A i \in 1..Len(name) : IsUpper(name[i])

\* C5: for p in 0..18 and t matching [A-Z]{1,7}, Symbol.fromParts(t, p) has
\* precision p, name t and the text "p,t"; Symbol.from of the text a Symbol
\* gives is a Symbol of the same raw value; and Symbol.fromABI of the 8 bytes
\* toABI wrote is a Symbol of the same raw value.
C5_SymbolRoundTrip ==
    /\ (op = "Symbol.fromParts" /\ ValidParts(arg.name, arg.precision)) =>
        /\ ret.type = "Symbol"
        /\ ret.val = <<arg.precision>> \o arg.name
        /\ Symbol_precision(ret.val) = arg.precision
        /\ Symbol_name(ret.val) = arg.name
        /\ Symbol_toString(ret.val) = NumToStr(arg.precision) \o <<Comma>> \o arg.name
    /\ (op = "Symbol.from" /\ arg.after = "Symbol.toString") =>
        /\ ret.type = "Symbol"
        /\ ret.val = this.v
    /\ (op = "Symbol.toABI") =>
        /\ Len(buf) = Len(arg.before) + 8
        /\ RawAt(buf, Len(arg.before)) = this.v
    /\ (/\ op = "Symbol.fromABI"
        /\ arg.after \in {"Symbol.toABI", "Symbol.fromABI"}
        /\ this.type = "Symbol") =>
        /\ ret.type = "Symbol"
        /\ ret.val = this.v
        /\ pos = arg.before + 8

C5_Witness ==
    /\ op = "Symbol.from"
    /\ arg.after = "Symbol.toString"
    /\ arg.value.v = <<49, 56, Comma, 65, 65, 65, 65, 65, 65, 90>>
    /\ ret.type = "Symbol"
    /\ ret.val = <<18, 65, 65, 65, 65, 65, 65, 90>>
    /\ this.v = ret.val

\* |float * 10^precision| >= 2^53 for the Symbol sym
ScaledTooLarge(sym, float) == GE2p53(MulPow10(float.mag, sym[1]))

\* C6: convertFloat, and the value setter, fail with the precision-loss error
\* for every number whose scaled magnitude is at or above 2^53, negative as
\* well as positive, and return no units.
C6_PrecisionLossGuard ==
    /\ (op = "Symbol.convertFloat" /\ ScaledTooLarge(this.v, arg.float))
        => ret.err = ErrLoosesPrecision
    /\ (op = "Asset.value=" /\ ScaledTooLarge(arg.self.symbol, arg.newValue))
        => ret.err = ErrLoosesPrecision

\* The text without the characters c.
Without(s, c) == SelectSeq(s, LAMBDA x : x # c)

\* C7: Asset.toString is an optional '-', present exactly when units < 0,
\* then the decimal digits of |units| left-padded with zeros to at least
\* precision + 1 digits, with a '.' exactly precision digits from the right
\* when precision > 0 and none when it is 0, then a space and the name.
C7_ToStringFormat ==
    op = "Asset.toString" =>
        LET text == ret.val
            p == this.v.symbol[1]
            n == SubSeq(this.v.symbol, 2, Len(this.v.symbol))
            mag == BNToDec(this.v.units.mag)
            neg == this.v.units.neg
            number == SubSeq(text, 1, Len(text) - Len(n) - 1)
            body == IF neg THEN Tail(number) ELSE number
            digits == Without(body, Dot)
            width == Max(p + 1, Len(mag))
        IN  /\ SubSeq(text, Len(text) - Len(n), Len(text)) = <<Space>> \o n
            /\ (text[1] = Minus) <=> neg
            /\ \A i \in 1..Len(digits) : IsDigit(digits[i])
            /\ digits = Rep(Zero, width - Len(mag)) \o mag
            /\ IF p > 0
               THEN /\ Len(body) = Len(digits) + 1
                    /\ body[Len(body) - p] = Dot
                    /\ Len(body) - p > 1
               ELSE body = digits
            /\ BNFromDec(digits, << >>) = this.v.units.mag

C7_Witness ==
    /\ op = "Asset.toString"
    /\ this.v.units = I64(TRUE, <<1, 2, 5, 0, 0>>)
    /\ this.v.symbol = <<4, 65, 90>>
    /\ ret.val = <<Minus, 49, Dot, 50, 53, 48, 48, Space, 65, 90>>

\* C8: asset.equals(other) is true exactly when, other being coerced with
\* Asset.from, both the symbol raw values and the units are equal; Assets of
\* different precisions or of different tickers are not equal, whatever
\* amount they denote.
C8_EqualsComparesBoth ==
    op = "Asset.equals" =>
        LET o == Asset_from(arg.other)
        IN  IF o.err # "" THEN ret.err = o.err
            ELSE /\ ret.type = "boolean"
                 /\ ret.val <=> (o.val.symbol = this.v.symbol /\ o.val.units = this.v.units)
                 /\ o.val.symbol[1] # this.v.symbol[1] => ~ret.val
                 /\ Tail(o.val.symbol) # Tail(this.v.symbol) => ~ret.val
                 /\ o.val.units # this.v.units => ~ret.val

\* "1.0 A" and "1.00 A"
C8_Witness ==
    /\ op = "Asset.equals"
    /\ Asset_toString(this.v) = <<49, Dot, 48, Space, 65>>
    /\ arg.other = Obj("string", <<49, Dot, 48, 48, Space, 65>>)
    /\ ret.type = "boolean"
    /\ ~ret.val

\* C9: Asset.toABI appends the 8 bytes of units and then the 8 bytes of the
\* symbol; ExtendedAsset.toABI appends the 16 bytes of the Asset and then the
\* contract; fromABI reads in the same order, so that decoding what was
\* encoded gives back the value and moves the read position past its bytes,
\* to the end of the buffer after the last one.
C9_FieldOrder ==
    /\ op = "Asset.toABI" =>
        /\ Len(buf) = Len(arg.before) + 16
        /\ SubSeq(buf, 1, Len(arg.before)) = arg.before
        /\ SubSeq(buf, Len(arg.before) + 1, Len(arg.before) + 8)
             = Int64_toABI(this.v.units, << >>)
        /\ SubSeq(buf, Len(arg.before) + 9, Len(buf)) = toArrayLE(this.v.symbol, 8)
    /\ op = "ExtendedAsset.toABI" =>
        /\ Len(buf) = Len(arg.before) + 24
        /\ SubSeq(buf, 1, Len(arg.before)) = arg.before
        /\ SubSeq(buf, Len(arg.before) + 1, Len(arg.before) + 8)
             = Int64_toABI(this.v.quantity.units, << >>)
        /\ SubSeq(buf, Len(arg.before) + 9, Len(arg.before) + 16)
             = toArrayLE(this.v.quantity.symbol, 8)
        /\ SubSeq(buf, Len(arg.before) + 17, Len(buf)) = toArrayLE(this.v.contract, 8)
    /\ (/\ op = "Asset.fromABI"
        /\ arg.after \in {"Asset.toABI", "Asset.fromABI"}
        /\ this.type = "Asset") =>
        /\ ret.type = "Asset"
        /\ ret.val = this.v
        /\ pos = arg.before + 16
        /\ Len(buf) - arg.before = 16 => pos = Len(buf)
    /\ (/\ op = "ExtendedAsset.fromABI"
        /\ arg.after \in {"ExtendedAsset.toABI", "ExtendedAsset.fromABI"}
        /\ this.type = "ExtendedAsset") =>
        /\ ret.type = "ExtendedAsset"
        /\ ret.val = this.v
        /\ pos = arg.before + 24
        /\ Len(buf) - arg.before = 24 => pos = Len(buf)

C9_Witness ==
    /\ op = "ExtendedAsset.fromABI"
    /\ arg.after = "ExtendedAsset.fromABI"
    /\ this.v.quantity.units = I64(TRUE, <<1, 2, 5, 0, 0>>)
    /\ this.v.contract # << >>
    /\ ret.val = this.v
    /\ pos = 48
    /\ pos = Len(buf)

\* The characters of the nonzero bytes of a raw value, lowest byte first.
NonZeroChars(raw) == SelectSeq(raw, LAMBDA b : b # 0)

\* C10: SymbolCode.toString gives the characters of the nonzero bytes of the
\* raw value, lowest byte first, and no character for a zero byte; the value
\* 0 gives the empty text.
C10_ToStringSkipsZeroBytes ==
    op = "SymbolCode.toString" => ret.val = NonZeroChars(this.v)

====
